---- MODULE Spec2Model ----
(***************************************************************************)
(* A model of neural_maxwell/datasets/generators.py: the SimulationData    *)
(* and Cavity2D simulation classes, the operator assembly (get_operators,  *)
(* get_A_ops_2d) and the dataset builder (make_batch).                     *)
(*                                                                         *)
(* Arrays are functions over index pairs <<row, col>> (numpy's arr[r, c]). *)
(* Python's None is the empty sequence <<>> and a present value v is <<v>>.*)
(* Real numbers that the code only multiplies are kept as monomials        *)
(* (a bag of named constants and an integer factor); square roots and      *)
(* reciprocals of integers are kept in closed form.                        *)
(***************************************************************************)
EXTENDS Integers, Sequences, FiniteSets, Bags, TLC

VARIABLES sim, loc, ret, cav, cret, bpc, bi, bgen, bsim, ds, bstop, dret

simVars == <<sim, loc, ret>>
cavVars == <<cav, cret>>
batchVars == <<bpc, bi, bgen, bsim, ds, bstop, dret>>
vars == <<sim, loc, ret, cav, cret, bpc, bi, bgen, bsim, ds, bstop, dret>>

---------------------------------------------------------------------------
(* Bounds of the model. *)
MaxGrid == 3
MaxPml == 1
MaxBuffer == 3
MaxRecords == 2

None == <<>>
Some(v) == <<v>>
Val(o) == o[1]

(* The index pairs of an n x m array. *)
Idx(n, m) == (0 .. n - 1) \X (0 .. m - 1)

(* np.ones((n, n)) *)
Ones(n) == [rc \in Idx(n, n) |-> 1]

(* A complex number re + im*j. *)
Complex(re, im) == <<re, im>>

(* np.zeros(shape, dtype = complex): the source array of a fresh Simulation. *)
Zeros(n, m) == [rc \in Idx(n, m) |-> Complex(0, 0)]

(* arr[r0:r1, c0:c1] for 0 <= r0 <= r1 <= rows, 0 <= c0 <= c1 <= cols. *)
Slice(arr, r0, r1, c0, c1) ==
    [rc \in Idx(r1 - r0, c1 - c0) |-> arr[<<rc[1] + r0, rc[2] + c0>>]]

(* arr[r0:r1, c0:c1] = block *)
SetBlock(arr, r0, r1, c0, c1, block) ==
    [rc \in DOMAIN arr |->
        IF rc[1] >= r0 /\ rc[1] < r1 /\ rc[2] >= c0 /\ rc[2] < c1
        THEN block[<<rc[1] - r0, rc[2] - c0>>]
        ELSE arr[rc]]

(* arr[r0:r1, c0:c1] = scalar *)
FillBlock(arr, r0, r1, c0, c1, v) ==
    [rc \in DOMAIN arr |->
        IF rc[1] >= r0 /\ rc[1] < r1 /\ rc[2] >= c0 /\ rc[2] < c1
        THEN v
        ELSE arr[rc]]

(* The permittivity blocks handed in: every cell holds a different value, *)
(* so that a shifted or transposed embedding shows.                       *)
PermBases == {2, 20}
LabelledBlock(g, base) == [rc \in Idx(g, g) |-> base + rc[1] * g + rc[2]]
Blocks(g) == {LabelledBlock(g, b) : b \in PermBases}

---------------------------------------------------------------------------
(* np.random.randint(low, high): the values it can return (high is        *)
(* exclusive); it raises ValueError when low >= high.                     *)
RandintRaises(low, high) == low >= high
Randint(low, high) == low .. (high - 1)

(* The external angler Simulation(omega, eps_r, dl, NPML, pol, L0): an    *)
(* object holding its permittivity grid and a zero source array.          *)
Simulation(omega, eps_r, rows, cols, npml, pol) ==
    [omega |-> omega, eps_r |-> eps_r, NPML |-> <<npml, npml>>, pol |-> pol,
     src |-> Zeros(rows, cols)]

(* A slip: the two indices swapped. *)
SetSrcTransposed(s, r, c, amplitude) ==
    [s EXCEPT !.src = [s.src EXCEPT ![<<c, r>>] = amplitude]]

(* sim.src[r, c] = amplitude *)
SetSrc(s, r, c, amplitude) ==
    [s EXCEPT !.src = [s.src EXCEPT ![<<r, c>>] = amplitude]]

(* One component returned by sim.solve_fields(): the solution of the      *)
(* linear system of that simulation, as a term.                           *)
SolveField(s, comp) == [comp |-> comp, of |-> s]

(* field[start:end, start:end] of a solved component. *)
ClipField(f, start, end) == [field |-> f, rows |-> <<start, end>>, cols |-> <<start, end>>]

---------------------------------------------------------------------------
(* SimulationData *)

(* A slip: the PML counted on one side only. *)
SimTotalGridSizeOnePml(grid_size, npml, npml_buffer) ==
    grid_size + npml + 2 * npml_buffer

SimTotalGridSize(grid_size, npml, npml_buffer) ==
    grid_size + 2 * npml + 2 * npml_buffer

(* SimulationData.__init__ once the source position is known. *)
SimObject(epsilons, mode, grid_size, npml, npml_buffer, source_pos) ==
    [epsilons |-> epsilons, omega |-> "OMEGA_1550*2", mode |-> mode,
     grid_size |-> grid_size, npml |-> npml, npml_buffer |-> npml_buffer,
     total_grid_size |-> SimTotalGridSize(grid_size, npml, npml_buffer),
     source_pos |-> source_pos, fields |-> None, fields_vac |-> None]

SimStart(s) == s.npml + s.npml_buffer
SimEnd(s) == SimStart(s) + s.grid_size

(* The coordinates an explicit source position takes: a cell of the       *)
(* device window (source_pos is relative to the window).                  *)
SourceCoords(grid_size) == 0 .. grid_size - 1

(* The positions the constructor can draw when source_pos is None:        *)
(* pos_x = randint(0, npml_buffer - 1), pos_y = randint(0, grid_size).    *)
DefaultSourcePositions(grid_size, npml_buffer) ==
    Randint(0, npml_buffer - 1) \X Randint(0, grid_size)

(* SimulationData(epsilons, source_pos = ..., mode, grid_size, npml, npml_buffer) *)
SimInit ==
    /\ sim = None /\ cav = None /\ cret = None /\ bpc = "idle"
    /\ \E grid_size \in 1 .. MaxGrid, npml \in 0 .. MaxPml, npml_buffer \in 0 .. MaxBuffer :
      \E epsilons \in Blocks(grid_size), given \in BOOLEAN :
        /\ loc' = None
        /\ IF given
           THEN \E x, y \in SourceCoords(grid_size) :
                /\ sim' = Some(SimObject(epsilons, "Ez", grid_size, npml, npml_buffer, <<x, y>>))
                /\ ret' = [op |-> "__init__", outcome |-> "return", arg |-> Some(<<x, y>>),
                           value |-> None]
           ELSE IF RandintRaises(0, npml_buffer - 1) \/ RandintRaises(0, grid_size)
                THEN /\ sim' = None
                     /\ ret' = [op |-> "__init__", outcome |-> "ValueError", arg |-> None,
                                value |-> Some(<<grid_size, npml, npml_buffer>>)]
                ELSE \E pos \in DefaultSourcePositions(grid_size, npml_buffer) :
                     /\ sim' = Some(SimObject(epsilons, "Ez", grid_size, npml, npml_buffer, pos))
                     /\ ret' = [op |-> "__init__", outcome |-> "return", arg |-> None,
                                value |-> None]
        /\ UNCHANGED <<cavVars, batchVars>>

(* The locals of SimulationData.solve and the fields it stores. *)
SimSolveLocals(s) ==
    LET start == SimStart(s)
        end == SimEnd(s)
        vac_perm == Ones(s.total_grid_size)
        perms == SetBlock(vac_perm, start, end, start, end, s.epsilons)
        pos_x == s.source_pos[1] + start
        pos_y == s.source_pos[2] + start
        n == s.total_grid_size
        vac_sim == SetSrc(Simulation(s.omega, vac_perm, n, n, s.npml, s.mode),
                          pos_x, pos_y, Complex(1, 0))
        dev_sim == SetSrc(Simulation(s.omega, perms, n, n, s.npml, s.mode),
                          pos_x, pos_y, Complex(1, 0))
    IN  [start |-> start, end |-> end, vac_perm |-> vac_perm, perms |-> perms,
         pos |-> <<pos_x, pos_y>>, vac_sim |-> vac_sim, sim |-> dev_sim]

SimFields(l, s) ==
    [n \in {"Hx", "Hy", "Ez"} |-> ClipField(SolveField(s, n), l.start, l.end)]

(* sim.solve() *)
SimSolve ==
    /\ sim # None
    /\ LET s == Val(sim)
           l == SimSolveLocals(s)
       IN  /\ sim' = Some([s EXCEPT !.fields = Some(SimFields(l, l.sim)),
                                    !.fields_vac = Some(SimFields(l, l.vac_sim))])
           /\ loc' = Some(l)
           /\ ret' = [op |-> "solve", outcome |-> "return", arg |-> None, value |-> None]
    /\ UNCHANGED <<cavVars, batchVars>>

---------------------------------------------------------------------------
(* The real values of a proximity matrix, in closed form: an integer n,   *)
(* sqrt(n), 1/n or 1/sqrt(n).                                             *)
Real(n) == [f |-> "int", n |-> n]

(* np.sqrt of a non-negative integer. *)
NpSqrt(n) ==
    IF \E k \in 0 .. n : k * k = n
    THEN Real(CHOOSE k \in 0 .. n : k * k = n)
    ELSE [f |-> "sqrt", n |-> n]

(* 1 / v for v an integer >= 1 or the square root of one. *)
Recip(v) ==
    IF v.f = "int"
    THEN IF v.n = 1 THEN Real(1) ELSE [f |-> "inv", n |-> v.n]
    ELSE [f |-> "invsqrt", n |-> v.n]

(* v ** 2 *)
Square(v) ==
    CASE v.f = "int" -> Real(v.n * v.n)
      [] v.f = "sqrt" -> Real(v.n)
      [] v.f = "inv" -> Recip(Real(v.n * v.n))
      [] v.f = "invsqrt" -> Recip(Real(v.n))

ProximityModes == {"linear", "squared", "inv_linear", "inv_squared"}

(* (x - x0) ** 2 + (y - y0) ** 2 *)
Dist2(x, y, x0, y0) == (x - x0) * (x - x0) + (y - y0) * (y - y0)

(* A slip: the source position taken as a padded-grid position. *)
ProximityOriginUnshifted(s) == s.source_pos

(* The source cell get_proximity_matrix measures from, on the padded grid. *)
ProximityOrigin(s) == <<s.source_pos[1] + SimStart(s), s.source_pos[2] + SimStart(s)>>

(* [[e(x, y) for x in range(total)] for y in range(total)]: row y, column x. *)
ProximityFull(s, mode) ==
    LET x0 == ProximityOrigin(s)[1]
        y0 == ProximityOrigin(s)[2]
    IN  [rc \in Idx(s.total_grid_size, s.total_grid_size) |->
            LET x == rc[2]
                y == rc[1]
            IN  CASE mode = "linear" -> NpSqrt(Dist2(x, y, x0, y0))
                  [] mode = "squared" -> Real(Dist2(x, y, x0, y0))
                  [] mode = "inv_linear" -> Recip(NpSqrt(1 + Dist2(x, y, x0, y0)))
                  [] mode = "inv_squared" -> Recip(Real(1 + Dist2(x, y, x0, y0)))]

(* SimulationData.get_proximity_matrix(mode): the array returned, or None *)
(* when no branch is taken.                                               *)
GetProximityMatrix(s, mode) ==
    IF mode \in {"linear", "squared", "inv_linear", "inv_squared"}
    THEN Some(Slice(ProximityFull(s, mode), SimStart(s), SimEnd(s), SimStart(s), SimEnd(s)))
    ELSE None

(* The transform names a caller passes, one of them unknown. *)
ModeArgs == ProximityModes \cup {"cubic"}

(* sim.get_proximity_matrix(mode) *)
SimGetProximityMatrix ==
    /\ sim # None
    /\ \E mode \in ModeArgs :
        ret' = [op |-> "get_proximity_matrix", outcome |-> "return", arg |-> Some(mode),
                value |-> GetProximityMatrix(Val(sim), mode)]
    /\ UNCHANGED <<sim, loc, cavVars, batchVars>>

---------------------------------------------------------------------------
(* Scalars that the operator assembly only multiplies: coef is the bag of *)
(* named constants multiplied in, val the integer factor.                 *)
Scalar(v) == [coef |-> EmptyBag, val |-> v]

(* c1 * c2 * ... * s for the constants named in the sequence cs. *)
RECURSIVE Times(_, _)
Times(cs, s) ==
    IF cs = <<>> THEN s
    ELSE Times(Tail(cs), [s EXCEPT !.coef = @ (+) SetToBag({Head(cs)})])

(* A slip: column-major (Fortran order) flattening. *)
ReshapeColumnMajor(arr, rows, cols) ==
    [k \in 0 .. rows * cols - 1 |-> arr[<<k % rows, k \div rows>>]]

(* arr.reshape((-1,)) of a rows x cols array: row-major flattening. *)
Reshape(arr, rows, cols) ==
    [k \in 0 .. rows * cols - 1 |-> arr[<<k \div cols, k % cols>>]]

(* cs * vector, elementwise. *)
TimesVector(cs, vector) == [k \in DOMAIN vector |-> Times(cs, Scalar(vector[k]))]

(* sp.spdiags(vector, 0, M, M): a sparse matrix that stores vector[k] at  *)
(* (k, k) and nothing else.                                               *)
SpDiags(vector, M) ==
    [shape |-> M, data |-> [rc \in {<<k, k>> : k \in 0 .. M - 1} |-> vector[rc[1]]]]

(* cs * sparse: every stored entry is multiplied. *)
TimesSparse(cs, m) == [m EXCEPT !.data = [rc \in DOMAIN m.data |-> Times(cs, m.data[rc])]]

(* sparse.todense(): entries that are not stored are zero. *)
ToDense(m) ==
    [rc \in Idx(m.shape, m.shape) |->
        IF rc \in DOMAIN m.data THEN m.data[rc] ELSE Scalar(0)]

(* Dxf@Dxb + Dyf@Dyb from the derivatives of a Simulation, as a term. *)
CurlCurl(s, rows, cols) ==
    [term |-> "Dxf@Dxb + Dyf@Dyb", shape |-> <<rows, cols>>, NPML |-> s.NPML,
     omega |-> s.omega, pol |-> s.pol]

(* The tail shared by Cavity2D.get_operators and get_A_ops_2d: the pair   *)
(* (curl_curl.todense(), other.todense()) for a rows x cols grid.         *)
Operators(s, perms, rows, cols) ==
    LET M == rows * cols
        vector_eps_z == TimesVector(<<"EPSILON0", "L0">>, Reshape(perms, rows, cols))
        T_eps_z == SpDiags(vector_eps_z, M)
        other == TimesSparse(<<"omega", "omega", "MU0", "L0">>, T_eps_z)
    IN  [curl_curl |-> CurlCurl(s, rows, cols), other |-> ToDense(other)]

---------------------------------------------------------------------------
(* Cavity2D *)
MaxCavityLength == 2
MaxCavityBuffer == 1

PolarizationArgs == {"Ez", "Hz", "Ex"}
BufferPermittivities == {-100}

CavTotalLength(c) == c.device_length + 2 * c.cavity_buffer + 2 * c.npml
CavStart(c) == c.npml + c.cavity_buffer
CavEnd(c) == CavStart(c) + c.device_length

(* Cavity2D(mode, device_length, npml, cavity_buffer, buffer_permittivity) *)
CavInit ==
    /\ sim = None /\ cav = None /\ cret = None /\ bpc = "idle" /\ ret.op = "none"
    /\ \E mode \in PolarizationArgs, device_length \in 1 .. MaxCavityLength, npml \in 0 .. MaxPml,
          cavity_buffer \in 0 .. MaxCavityBuffer,
          buffer_permittivity \in BufferPermittivities :
        cav' = Some([mode |-> mode, device_length |-> device_length, npml |-> npml,
                     cavity_buffer |-> cavity_buffer,
                     buffer_permittivity |-> buffer_permittivity])
    /\ cret' = None
    /\ UNCHANGED <<simVars, batchVars>>

(* The reflection zone of solve and get_operators: the four border strips. *)
CavBorderBefore(c, perms) ==
    LET n == CavTotalLength(c)
        p1 == FillBlock(perms, 0, n, 0, CavStart(c), c.buffer_permittivity)
    IN  FillBlock(p1, 0, CavStart(c), 0, n, c.buffer_permittivity)

(* A slip: the rows below the device window are left out. *)
CavBorderAfterColumnsOnly(c, perms) ==
    LET n == CavTotalLength(c)
    IN  FillBlock(perms, 0, n, CavEnd(c), n, c.buffer_permittivity)

CavBorderAfter(c, perms) ==
    LET n == CavTotalLength(c)
        p1 == FillBlock(perms, 0, n, CavEnd(c), n, c.buffer_permittivity)
    IN  FillBlock(p1, CavEnd(c), n, 0, n, c.buffer_permittivity)

(* The padded permittivity grid of Cavity2D.solve. *)
CavSolvePerms(c, epsilons) ==
    LET p0 == Ones(CavTotalLength(c))
        p1 == CavBorderBefore(c, p0)
        p2 == SetBlock(p1, CavStart(c), CavEnd(c), CavStart(c), CavEnd(c), epsilons)
    IN  CavBorderAfter(c, p2)

(* The padded permittivity grid of Cavity2D.get_operators. *)
CavOperatorPerms(c) == CavBorderAfter(c, CavBorderBefore(c, Ones(CavTotalLength(c))))

(* src_x = total_length // 2 when None. *)
CavSource(c, arg) == IF arg = None THEN CavTotalLength(c) \div 2 ELSE Val(arg)

(* The source coordinates a caller passes: None, or the first or the last *)
(* index of the padded grid.                                              *)
CavSourceArgs(c) == {None, Some(0), Some(CavTotalLength(c) - 1)}

(* Whether the external Simulation constructor accepts the polarization:  *)
(* it accepts Ez and Hz; for another string it may accept or raise.       *)
SimulationAccepts(pol) == IF pol \in {"Ez", "Hz"} THEN {TRUE} ELSE {TRUE, FALSE}

(* cavity.solve(epsilons, omega, src_x, src_y): built lists, in order,    *)
(* what was built before the call ended.                                  *)
CavSolveResult(c, epsilons, ax, ay, accepted) ==
    LET perms == CavSolvePerms(c, epsilons)
        src_x == CavSource(c, ax)
        src_y == CavSource(c, ay)
        n == CavTotalLength(c)
        s0 == Simulation("omega", perms, n, n, c.npml, c.mode)
        s == SetSrc(s0, src_y, src_x, Complex(0, 1))
        names == IF c.mode = "Ez" THEN <<"Hx", "Hy", "Ez">> ELSE <<"Ex", "Ey", "Hz">>
        call == [op |-> "solve", epsilons |-> Some(epsilons),
                 geometry |-> <<n, CavStart(c), CavEnd(c)>>, perms |-> Some(perms)]
    IN  IF ~accepted
        THEN call @@ [outcome |-> "SimulationError", built |-> <<"perms">>,
                      sim |-> None, value |-> None]
        ELSE IF c.mode = "Ez" \/ c.mode = "Hz"
        THEN call @@ [outcome |-> "return",
                      built |-> <<"perms", "simulation", "source", "fields">>,
                      sim |-> Some(s),
                      value |-> Some([perms |-> perms, src_x |-> src_x, src_y |-> src_y,
                                      fields |-> [k \in 1 .. 3 |-> SolveField(s, names[k])]])]
        ELSE call @@ [outcome |-> "ValueError",
                      built |-> <<"perms", "simulation", "source">>,
                      sim |-> Some(s), value |-> None]

CavSolve ==
    /\ cav # None
    /\ \E epsilons \in Blocks(Val(cav).device_length),
          ax \in CavSourceArgs(Val(cav)), ay \in CavSourceArgs(Val(cav)),
          accepted \in SimulationAccepts(Val(cav).mode) :
        cret' = Some(CavSolveResult(Val(cav), epsilons, ax, ay, accepted))
    /\ UNCHANGED <<cav, simVars, batchVars>>

(* cavity.get_operators(omega) *)
CavGetOperatorsResult(c, accepted) ==
    LET n == CavTotalLength(c)
        perms == CavOperatorPerms(c)
        s == Simulation("omega", perms, n, n, c.npml, c.mode)
        call == [op |-> "get_operators", epsilons |-> None,
                 geometry |-> <<n, CavStart(c), CavEnd(c)>>, perms |-> Some(perms)]
    IN  IF ~accepted
        THEN call @@ [outcome |-> "SimulationError", built |-> <<"perms">>,
                      sim |-> None, value |-> None]
        ELSE call @@ [outcome |-> "return",
                      built |-> <<"perms", "simulation", "operators">>,
                      sim |-> Some(s), value |-> Some(Operators(s, perms, n, n))]

CavGetOperators ==
    /\ cav # None
    /\ \E accepted \in SimulationAccepts(Val(cav).mode) :
        cret' = Some(CavGetOperatorsResult(Val(cav), accepted))
    /\ UNCHANGED <<cav, simVars, batchVars>>

(* get_A_ops_2d(epsilons, npml): epsilons is the whole rows x cols grid. *)
MaxOpSide == 3
OpGrid(rows, cols, base) == [rc \in Idx(rows, cols) |-> base + rc[1] * cols + rc[2]]

GetAOps2dResult(epsilons, rows, cols, npml) ==
    LET s == Simulation("omega", epsilons, rows, cols, npml, "Ez")
    IN  [op |-> "get_A_ops_2d", epsilons |-> Some(epsilons), geometry |-> <<rows, cols>>,
         perms |-> Some(epsilons), outcome |-> "return",
         built |-> <<"simulation", "operators">>, sim |-> Some(s),
         value |-> Some(Operators(s, epsilons, rows, cols))]

GetAOps2d ==
    /\ sim = None /\ cav = None /\ cret = None /\ bpc = "idle" /\ ret.op = "none"
    /\ \E rows \in 1 .. MaxOpSide, cols \in 1 .. MaxOpSide, base \in PermBases,
          npml \in 0 .. MaxPml :
        cret' = Some(GetAOps2dResult(OpGrid(rows, cols, base), rows, cols, npml))
    /\ UNCHANGED <<cav, simVars, batchVars>>

---------------------------------------------------------------------------
(* make_batch *)

(* The eight columns of a batch, in the order make_batch writes them. *)
Columns == <<"epsilons", "proximities", "Hx", "Hy", "Ez", "Hx_vac", "Hy_vac", "Ez_vac">>

(* The defaults of SimulationData that make_batch relies on (grid_size =  *)
(* GRID_SIZE, npml = 16, npml_buffer = 16), scaled down to model size.    *)
GRID_SIZE == 2
DefaultNpml == 1
DefaultNpmlBuffer == 3

(* create_dataset(f, N, name) on a file without the batch: eight columns  *)
(* of N slots, none written yet.                                          *)
CreateDataset(N) ==
    [N |-> N, s |-> GRID_SIZE,
     cols |-> [c \in {Columns[k] : k \in 1 .. Len(Columns)} |->
                  [i \in 0 .. N - 1 |-> None]]]

(* A slip: create_group / create_dataset in place of require_group /     *)
(* require_dataset, which raise when the name exists.                    *)
create_datasetNoReuse(file, N, s) ==
    IF file = None
    THEN [outcome |-> "return", file |-> Some([CreateDataset(N) EXCEPT !.s = s]),
          dataset |-> Some([c \in DOMAIN CreateDataset(N).cols |-> <<N, s, s>>])]
    ELSE [outcome |-> "ValueError", file |-> file, dataset |-> None]

(* create_dataset(f, N, name, s) on a file whose batch `name` is file     *)
(* (None when the file has no such batch): require_group and the eight    *)
(* require_dataset calls return what exists when its shape is (N, s, s),  *)
(* create it when it does not exist, and raise TypeError on another       *)
(* shape. dataset is the dictionary returned: column name -> shape.       *)
create_dataset(file, N, s) ==
    IF file = None
    THEN [outcome |-> "return", file |-> Some([CreateDataset(N) EXCEPT !.s = s]),
          dataset |-> Some([c \in DOMAIN CreateDataset(N).cols |-> <<N, s, s>>])]
    ELSE IF Val(file).N = N /\ Val(file).s = s
    THEN [outcome |-> "return", file |-> file,
          dataset |-> Some([c \in DOMAIN Val(file).cols |-> <<N, s, s>>])]
    ELSE [outcome |-> "TypeError", file |-> file, dataset |-> None]

(* f = h5py.File(...); ds = create_dataset(f, N, name) *)
BatchStart ==
    /\ sim = None /\ cav = None /\ cret = None /\ bpc = "idle" /\ ret.op = "none"
    /\ \E N \in 1 .. MaxRecords, base \in PermBases :
        /\ ds' = create_dataset(ds, N, GRID_SIZE).file
        /\ bgen' = base
    /\ bpc' = "generate" /\ bi' = 0 /\ bsim' = None
    /\ UNCHANGED <<bstop, dret, simVars, cavVars>>

(* epsilons = permmitivity_generator(); sim = SimulationData(epsilons, omega = omega) *)
BatchNewSim ==
    /\ bpc = "generate" /\ bstop = "no"
    /\ \E pos \in DefaultSourcePositions(GRID_SIZE, DefaultNpmlBuffer) :
        bsim' = Some(SimObject(LabelledBlock(GRID_SIZE, bgen + bi), "Ez", GRID_SIZE,
                               DefaultNpml, DefaultNpmlBuffer, pos))
    /\ bpc' = "solve"
    /\ UNCHANGED <<bi, bgen, ds, bstop, dret, simVars, cavVars>>

(* sim.solve(): the linear solve returns, or raises and ends the job. *)
BatchSolve ==
    /\ bpc = "solve" /\ bstop = "no"
    /\ \/ LET s == Val(bsim)
              l == SimSolveLocals(s)
          IN  /\ bsim' = Some([s EXCEPT !.fields = Some(SimFields(l, l.sim)),
                                        !.fields_vac = Some(SimFields(l, l.vac_sim))])
              /\ bpc' = "write1"
              /\ UNCHANGED bstop
       \/ /\ bstop' = "SolverError"
          /\ UNCHANGED <<bsim, bpc>>
    /\ UNCHANGED <<bi, bgen, ds, dret, simVars, cavVars>>

(* The value make_batch stores in column k of the record. *)
ColumnValue(s, k) ==
    CASE k = 1 -> s.epsilons
      [] k = 2 -> Val(GetProximityMatrix(s, "inv_squared"))
      [] k \in 3 .. 5 -> Val(s.fields)[Columns[k]]
      [] k = 6 -> Val(s.fields_vac)["Hx"]
      [] k = 7 -> Val(s.fields_vac)["Hy"]
      [] k = 8 -> Val(s.fields_vac)["Ez"]

WriteStep(k) == CASE k = 1 -> "write1" [] k = 2 -> "write2" [] k = 3 -> "write3"
                  [] k = 4 -> "write4" [] k = 5 -> "write5" [] k = 6 -> "write6"
                  [] k = 7 -> "write7" [] k = 8 -> "write8"

(* ds[column][i] = value: one of the eight assignments of the loop body; *)
(* after the last one the loop moves to the next i.                      *)
BatchWrite ==
    /\ bstop = "no"
    /\ \E k \in 1 .. Len(Columns) :
        /\ bpc = WriteStep(k)
        /\ ds' = Some([Val(ds) EXCEPT !.cols[Columns[k]][bi] =
                          Some([inst |-> bi, data |-> ColumnValue(Val(bsim), k)])])
        /\ IF k < Len(Columns)
           THEN bpc' = WriteStep(k + 1) /\ UNCHANGED bi
           ELSE /\ bi' = bi + 1
                /\ bpc' = IF bi + 1 < Val(ds).N THEN "generate" ELSE "done"
    /\ UNCHANGED <<bgen, bsim, bstop, dret, simVars, cavVars>>

(* An external interrupt between two statements of the job. *)
BatchInterrupt ==
    /\ bpc \notin {"idle", "done"} /\ bstop = "no"
    /\ bstop' = "KeyboardInterrupt"
    /\ UNCHANGED <<bpc, bi, bgen, bsim, ds, dret, simVars, cavVars>>

(* The sizes a later create_dataset call passes: that of the batch and    *)
(* another one.                                                           *)
SizeArgs == {GRID_SIZE, GRID_SIZE + 1}

(* create_dataset(f, N, name, s) once more, on the file the job has left: *)
(* dret keeps the arguments, the outcome and the batch as it was before.  *)
CreateDatasetAgain ==
    /\ ds # None /\ dret = None
    /\ bpc = "done" \/ bstop # "no"
    /\ \E N \in 1 .. MaxRecords, s \in SizeArgs :
        LET r == create_dataset(ds, N, s)
        IN  /\ ds' = r.file
            /\ dret' = Some([N |-> N, s |-> s, outcome |-> r.outcome,
                             dataset |-> r.dataset, before |-> ds])
    /\ UNCHANGED <<bpc, bi, bgen, bsim, bstop, simVars, cavVars>>

---------------------------------------------------------------------------
(* perm_ellipse *)

(* The literals of perm_ellipse: randint(16, s - 16, 2), randint(5, 16, 2). *)
EllipseMargin == 16
EllipseMinRadius == 5
EllipseRadiusEnd == 16

(* The largest side s the model passes; the smallest one for which        *)
(* randint(16, s - 16) has a value to draw is 2 * 16 + 1.                 *)
MaxEllipseSide == 34

(* ((x - x0) / rx) ** 2 + ((y - y0) / ry) ** 2 <= 1, decided in exact     *)
(* arithmetic (both sides multiplied by rx^2 * ry^2).                     *)
EllipseTest(x, y, x0, y0, rx, ry) ==
    (x - x0) * (x - x0) * ry * ry + (y - y0) * (y - y0) * rx * rx <= rx * rx * ry * ry

(* x, y = np.meshgrid(np.arange(s), np.arange(s)): x[r][c] = c, y[r][c] = r; *)
(* ellipse[r][c] is the truth value of the test, 1 or 0.                  *)
EllipseMask(s, x0, y0, rx, ry) ==
    [rc \in Idx(s, s) |-> IF EllipseTest(rc[2], rc[1], x0, y0, rx, ry) THEN 1 ELSE 0]

(* p_matrix = np.ones((s, s)); p_matrix[ellipse < 1.0] = eps_si *)
perm_ellipse(s, x0, y0, rx, ry) ==
    LET ellipse == EllipseMask(s, x0, y0, rx, ry)
    IN  [rc \in Idx(s, s) |-> IF ellipse[rc] < 1 THEN "eps_si" ELSE "1.0"]

(* perm_ellipse(s): the centre and the radii are drawn, the block returned. *)
PermEllipse ==
    /\ sim = None /\ cav = None /\ cret = None /\ bpc = "idle" /\ ret.op = "none"
    /\ \E s \in (2 * EllipseMargin + 1) .. MaxEllipseSide :
       \E x0, y0 \in Randint(EllipseMargin, s - EllipseMargin),
          rx, ry \in Randint(EllipseMinRadius, EllipseRadiusEnd) :
        cret' = Some([op |-> "perm_ellipse", outcome |-> "return", s |-> s,
                      centre |-> <<x0, y0>>, radii |-> <<rx, ry>>,
                      value |-> Some(perm_ellipse(s, x0, y0, rx, ry))])
    /\ UNCHANGED <<cav, simVars, batchVars>>

---------------------------------------------------------------------------
InitSim == sim = None /\ loc = None /\
    ret = [op |-> "none", outcome |-> "return", arg |-> None, value |-> None]
InitCav == cav = None /\ cret = None
InitBatch == bpc = "idle" /\ bi = 0 /\ bgen = 0 /\ bsim = None /\ ds = None /\ bstop = "no" /\
    dret = None

Init == InitSim /\ InitCav /\ InitBatch

Next ==
    \/ SimInit \/ SimSolve \/ SimGetProximityMatrix
    \/ CavInit \/ CavSolve \/ CavGetOperators \/ GetAOps2d
    \/ BatchStart \/ BatchNewSim \/ BatchSolve \/ BatchWrite \/ BatchInterrupt
    \/ CreateDatasetAgain
    \/ PermEllipse

Spec == Init /\ [][Next]_vars

---------------------------------------------------------------------------
(* Properties *)

(* The shape of the grid an operator call worked on. *)
OperatorShape(r) ==
    IF r.op = "get_A_ops_2d" THEN r.geometry ELSE <<r.geometry[1], r.geometry[1]>>

(* The second operator returned is diagonal, and its diagonal entry at    *)
(* row-major index i * cols + j is coef * permittivity[i][j].             *)
MaterialIs(coef) ==
    (cret # None /\ Val(cret).op \in {"get_operators", "get_A_ops_2d"}
                 /\ Val(cret).outcome = "return") =>
        LET r == Val(cret)
            rows == OperatorShape(r)[1]
            cols == OperatorShape(r)[2]
            other == Val(r.value).other
            perms == Val(r.perms)
        IN  /\ DOMAIN other = Idx(rows * cols, rows * cols)
            /\ \A rc \in DOMAIN other : rc[1] # rc[2] => other[rc] = Scalar(0)
            /\ \A ij \in Idx(rows, cols) :
                 other[<<ij[1] * cols + ij[2], ij[1] * cols + ij[2]>>]
                    = [coef |-> coef, val |-> perms[ij]]

(* C1, as stated: the second operator returned by Cavity2D.get_operators  *)
(* and by get_A_ops_2d is diagonal and its entry at row-major index       *)
(* i*W + j is EPSILON0 * L0 * permittivity[i][j], with no other factor.   *)
C1_MaterialIsEpsilon0L0Permittivity == MaterialIs(SetToBag({"EPSILON0", "L0"}))

(* C1, amended: the second operator returned is diagonal and its entry at *)
(* row-major index i*W + j is                                             *)
(* omega**2 * MU0 * L0 * EPSILON0 * L0 * permittivity[i][j].              *)
C1_MaterialIsScaledDiagonal ==
    MaterialIs([k \in {"EPSILON0", "L0", "MU0", "omega"} |->
                   IF k \in {"L0", "omega"} THEN 2 ELSE 1])

(* A get_A_ops_2d call on a grid that is not square has returned. *)
C1_Witness ==
    /\ cret # None
    /\ Val(cret).op = "get_A_ops_2d"
    /\ Val(cret).geometry = <<2, 3>>
    /\ Val(Val(cret).value).other[<<5, 5>>].val = Val(Val(cret).perms)[<<1, 2>>]

(* C2: SimulationData and Cavity2D compute total_size = device_size +     *)
(* 2*pml + 2*buffer, start = pml + buffer and end = start + device_size,  *)
(* so end - start = device_size and 0 <= start <= end <= total_size, and  *)
(* the padded grid is total_size x total_size.                            *)
C2_GridGeometry ==
    /\ sim # None =>
         Val(sim).total_grid_size
            = Val(sim).grid_size + 2 * Val(sim).npml + 2 * Val(sim).npml_buffer
    /\ loc # None =>
         LET s == Val(sim)
             l == Val(loc)
         IN  /\ l.start = s.npml + s.npml_buffer
             /\ l.end = l.start + s.grid_size
             /\ l.end - l.start = s.grid_size
             /\ 0 <= l.start /\ l.start <= l.end /\ l.end <= s.total_grid_size
             /\ s.total_grid_size = s.grid_size + 2 * l.start
             /\ DOMAIN l.perms = Idx(s.total_grid_size, s.total_grid_size)
    /\ (cret # None /\ Val(cret).op = "solve") =>
         LET c == Val(cav)
             total == Val(cret).geometry[1]
             start == Val(cret).geometry[2]
             end == Val(cret).geometry[3]
         IN  /\ total = c.device_length + 2 * c.npml + 2 * c.cavity_buffer
             /\ start = c.npml + c.cavity_buffer
             /\ end = start + c.device_length
             /\ end - start = c.device_length
             /\ 0 <= start /\ start <= end /\ end <= total
             /\ DOMAIN Val(Val(cret).perms) = Idx(total, total)

(* A solve has run on a grid with no PML and no buffer. *)
C2_Witness ==
    /\ loc # None
    /\ Val(sim).npml = 0 /\ Val(sim).npml_buffer = 0
    /\ Val(loc).start = 0 /\ Val(loc).end = Val(sim).total_grid_size

InWindow(rc, start, end) ==
    rc[1] >= start /\ rc[1] < end /\ rc[2] >= start /\ rc[2] < end

(* C3: in the padded permittivity grid of a solve, every cell inside the  *)
(* device window equals the corresponding cell of the input block, and    *)
(* every cell outside it equals 1 in SimulationData.solve (device grid    *)
(* and vacuum grid) and buffer_permittivity in Cavity2D.solve.            *)
C3_PaddedPermittivity ==
    /\ loc # None =>
         LET s == Val(sim)
             l == Val(loc)
         IN  \A rc \in Idx(s.total_grid_size, s.total_grid_size) :
                IF InWindow(rc, l.start, l.end)
                THEN l.perms[rc] = s.epsilons[<<rc[1] - l.start, rc[2] - l.start>>]
                ELSE l.perms[rc] = 1 /\ l.vac_perm[rc] = 1
    /\ (cret # None /\ Val(cret).op = "solve") =>
         LET c == Val(cav)
             r == Val(cret)
             total == c.device_length + 2 * c.npml + 2 * c.cavity_buffer
             start == c.npml + c.cavity_buffer
             end == start + c.device_length
         IN  \A rc \in Idx(total, total) :
                IF InWindow(rc, start, end)
                THEN Val(r.perms)[rc] = Val(r.epsilons)[<<rc[1] - start, rc[2] - start>>]
                ELSE Val(r.perms)[rc] = c.buffer_permittivity

(* A cavity solve has returned on a grid with a PML and a buffer. *)
C3_Witness ==
    /\ cret # None
    /\ Val(cret).op = "solve" /\ Val(cret).outcome = "return"
    /\ Val(cav).npml > 0 /\ Val(cav).cavity_buffer > 0 /\ Val(cav).device_length > 1
    /\ Val(Val(cret).perms)[<<0, 0>>] = Val(cav).buffer_permittivity

(* C4: with no source position given, SimulationData draws it over        *)
(* [0, npml_buffer - 1] x [0, grid_size): every x in 0 .. npml_buffer - 1 *)
(* and every y in 0 .. grid_size - 1 can be drawn and nothing else; a     *)
(* given source position is used unchanged.                               *)
C4_DefaultSourceCoversBufferStrip ==
    (sim # None /\ ret.op = "__init__") =>
        LET s == Val(sim)
        IN  IF ret.arg = None
            THEN /\ DefaultSourcePositions(s.grid_size, s.npml_buffer)
                      = (0 .. s.npml_buffer - 1) \X (0 .. s.grid_size - 1)
                 /\ s.source_pos \in (0 .. s.npml_buffer - 1) \X (0 .. s.grid_size - 1)
            ELSE s.source_pos = Val(ret.arg)

(* C5: constructing SimulationData with source_pos = None never raises,   *)
(* whatever the buffer thickness (0 and 1 included), and yields an object *)
(* with a source position.                                                *)
C5_DefaultSourceNeverRaises ==
    (ret.op = "__init__" /\ ret.arg = None) => (ret.outcome = "return" /\ sim # None)

(* What the transform named mode makes of the squared distance d2. *)
Transform(mode, d2) ==
    CASE mode = "squared" -> Real(d2)
      [] mode = "linear" -> NpSqrt(d2)
      [] mode = "inv_squared" -> Recip(Real(1 + d2))
      [] mode = "inv_linear" -> Recip(NpSqrt(1 + d2))

(* C6: get_proximity_matrix returns a grid_size x grid_size array f with  *)
(* f[y][x] the transform of d2 = (x - x0)^2 + (y - y0)^2, (x0, y0) the    *)
(* source position in device-window coordinates; for x0 = y0 = 0 on 3 x 3 *)
(* squared[1][1] = 2, inv_squared[0][0] = 1 and linear[2][2]^2 = 8.       *)
C6_ProximityMatrix ==
    (ret.op = "get_proximity_matrix" /\ Val(ret.arg) \in ProximityModes) =>
        LET s == Val(sim)
            mode == Val(ret.arg)
            x0 == s.source_pos[1]
            y0 == s.source_pos[2]
        IN  /\ ret.value # None
            /\ DOMAIN Val(ret.value) = Idx(s.grid_size, s.grid_size)
            /\ \A y, x \in 0 .. s.grid_size - 1 :
                 Val(ret.value)[<<y, x>>]
                    = Transform(mode, (x - x0) * (x - x0) + (y - y0) * (y - y0))
            /\ (s.grid_size = 3 /\ x0 = 0 /\ y0 = 0) =>
                 /\ mode = "squared" => Val(ret.value)[<<1, 1>>] = Real(2)
                 /\ mode = "inv_squared" => Val(ret.value)[<<0, 0>>] = Real(1)
                 /\ mode = "linear" => /\ Square(Val(ret.value)[<<2, 2>>]) = Real(8)
                                       /\ Val(ret.value)[<<2, 2>>] # Real(8)

(* The linear proximity of a 3 x 3 window with a PML and a buffer, the    *)
(* source at (0, 0), has been returned.                                   *)
C6_Witness ==
    /\ ret.op = "get_proximity_matrix" /\ ret.arg = Some("linear")
    /\ sim # None
    /\ Val(sim).grid_size = 3 /\ Val(sim).npml > 0 /\ Val(sim).npml_buffer > 0
    /\ Val(sim).source_pos = <<0, 0>>
    /\ Val(ret.value)[<<2, 2>>] = [f |-> "sqrt", n |-> 8]

(* C7: get_proximity_matrix with a transform name outside linear,         *)
(* squared, inv_linear, inv_squared ends in an error, not in a normal     *)
(* return.                                                                *)
C7_UnknownTransformRaises ==
    (ret.op = "get_proximity_matrix" /\ Val(ret.arg) \notin ProximityModes) =>
        ret.outcome # "return"

(* C8: with a polarization other than Ez or Hz, Cavity2D.solve and        *)
(* Cavity2D.get_operators end in an error, and nothing (grid, source,     *)
(* simulation) has been built when it is raised.                          *)
C8_InvalidModeFailsFast ==
    (cret # None /\ Val(cret).op \in {"solve", "get_operators"}
                 /\ Val(cav).mode \notin {"Ez", "Hz"}) =>
        /\ Val(cret).outcome # "return"
        /\ Val(cret).built = <<>>

(* The cells of a source array that are not zero. *)
NonZero(src) == {rc \in DOMAIN src : src[rc] # Complex(0, 0)}

(* C9: in SimulationData.solve the vacuum and the device simulation each  *)
(* have exactly one nonzero source entry, both at the padded-grid cell    *)
(* source_pos + start; Cavity2D.solve sets exactly one nonzero entry.     *)
C9_SingleSourceEntry ==
    /\ loc # None =>
         LET s == Val(sim)
             l == Val(loc)
             cell == <<s.source_pos[1] + s.npml + s.npml_buffer,
                       s.source_pos[2] + s.npml + s.npml_buffer>>
         IN  /\ NonZero(l.vac_sim.src) = {cell}
             /\ NonZero(l.sim.src) = {cell}
    /\ (cret # None /\ Val(cret).op = "solve" /\ Val(cret).sim # None) =>
         Cardinality(NonZero(Val(Val(cret).sim).src)) = 1

(* A solve has run with a source position whose coordinates differ. *)
C9_Witness ==
    /\ loc # None
    /\ Val(sim).source_pos[1] # Val(sim).source_pos[2]
    /\ Val(loc).start > 0
    /\ Val(loc).sim.src[Val(loc).pos] = Complex(1, 0)

(* The columns of record i that have been written. *)
WrittenColumns(i) ==
    {c \in DOMAIN Val(ds).cols : Val(ds).cols[c][i] # None}

(* C10: whenever make_batch has stopped (interrupt or solver error), each *)
(* record slot is written in all eight columns, from one simulation       *)
(* instance, or in none.                                                  *)
C10_RecordsAtomic ==
    (ds # None /\ bstop # "no") =>
        \A i \in 0 .. Val(ds).N - 1 :
            \/ WrittenColumns(i) = {}
            \/ /\ WrittenColumns(i) = DOMAIN Val(ds).cols
               /\ \A c \in DOMAIN Val(ds).cols : Val(Val(ds).cols[c][i]).inst = i

(* C11: create_dataset called again with the same batch name, N and size  *)
(* on a file that already holds the batch does not raise, returns the     *)
(* same eight columns, and leaves every record of the batch as it was.    *)
C11_CreateDatasetIdempotent ==
    (dret # None /\ Val(dret).N = Val(Val(dret).before).N
                 /\ Val(dret).s = Val(Val(dret).before).s) =>
        LET d == Val(dret)
        IN  /\ d.outcome = "return"
            /\ d.dataset # None
            /\ DOMAIN Val(d.dataset) = {Columns[k] : k \in 1 .. Len(Columns)}
            /\ Cardinality(DOMAIN Val(d.dataset)) = 8
            /\ DOMAIN Val(ds).cols = DOMAIN Val(d.before).cols
            /\ \A c \in DOMAIN Val(ds).cols : \A i \in 0 .. d.N - 1 :
                 Val(ds).cols[c][i] = Val(d.before).cols[c][i]

(* create_dataset has been called again, with the same N and size, on a   *)
(* batch whose first record is written in every column.                   *)
C11_Witness ==
    /\ dret # None
    /\ Val(dret).outcome = "return"
    /\ Val(dret).N = Val(ds).N /\ Val(dret).s = Val(ds).s
    /\ \A c \in DOMAIN Val(ds).cols : Val(ds).cols[c][0] # None

(* C12: perm_ellipse returns an s x s block in which the cells inside the *)
(* drawn ellipse ((x - x0)/rx)^2 + ((y - y0)/ry)^2 <= 1 equal eps_si and  *)
(* the cells outside it equal 1.0. Cells on the ellipse itself are left   *)
(* out: rounding decides them.                                            *)
C12_EllipseOfEpsSiOnUnitBackground ==
    (cret # None /\ Val(cret).op = "perm_ellipse") =>
        LET r == Val(cret)
            x0 == r.centre[1]
            y0 == r.centre[2]
            rx == r.radii[1]
            ry == r.radii[2]
            p_matrix == Val(r.value)
        IN  /\ DOMAIN p_matrix = Idx(r.s, r.s)
            /\ \A y, x \in 0 .. r.s - 1 :
                 LET lhs == (x - x0) * (x - x0) * ry * ry + (y - y0) * (y - y0) * rx * rx
                     rhs == rx * rx * ry * ry
                 IN  /\ lhs < rhs => p_matrix[<<y, x>>] = "eps_si"
                     /\ lhs > rhs => p_matrix[<<y, x>>] = "1.0"

(* C13: the proximity map refers to the same cell as the solve: the index *)
(* [r][c] at which the squared proximity is 0 (the inv_squared one is 1)  *)
(* is the index of the clipped field arrays at which solve placed the     *)
(* source, also when the two source coordinates differ.                   *)
C13_ProximityAtSourceCell ==
    (loc # None /\ ret.op = "get_proximity_matrix"
                /\ Val(ret.arg) \in {"squared", "inv_squared"}) =>
        LET l == Val(loc)
            clipped == Slice(l.sim.src, l.start, l.end, l.start, l.end)
            nearest == IF Val(ret.arg) = "squared" THEN Real(0) ELSE Real(1)
        IN  {rc \in DOMAIN Val(ret.value) : Val(ret.value)[rc] = nearest}
                = NonZero(clipped)

====
